---------------------------- MODULE Spec2Model ----------------------------
(***************************************************************************)
(* The scope-tracking traversal and scoring engine of hell:                *)
(*   lib/hell/analyzer.js  (Analyzer: traverse, process, the scope stack)  *)
(*   lib/hell/context.js   (Context: the scope record, score, depth)       *)
(*                                                                         *)
(* A syntax tree is a sequence of nodes in pre-order; node i carries its   *)
(* type tag, the index of its parent node (0 for the root) and the fields  *)
(* the scoring rules read (alternate, consequent, operator).  Scope        *)
(* records live in `heap` in creation order and are referred to by their   *)
(* index there; `stack`, the `children` lists and the collector hold such  *)
(* indices, as the JavaScript holds object references.                     *)
(***************************************************************************)
EXTENDS Naturals, Sequences, FiniteSets

VARIABLES
  ast,        \* the tree source.ast() returns; <<>> when it returns nothing
  marked,     \* marked[i]: node i carries the mark `node.context = true`
  heap,       \* every Context object created so far, in creation order
  stack,      \* Analyzer.stack: indices into heap, bottom first
  collected,  \* the records handed to source.add, in call order
  entered,    \* the nodes whose enter callback has run, in call order
  cursor,     \* the callback the walk runs next: [phase, node]
  pc,         \* "idle", "walk", "done" or "error"
  base,       \* the number of records that existed when analyze was called
  sigThis,    \* the record whose signature() is asked: <<>> or <<[node, parent]>>
  sigOut,     \* what signature() gave: a value, a TypeError, or still pending
  names,      \* the name of every identifier node of the tree, "" elsewhere
  keys,       \* keys[i]: the property of its parent that holds node i
  values,     \* values[i]: the value of literal node i (a string, a number,
              \* a boolean or null), undefined elsewhere
  \* two analyses, 1 and 2, each of its own source:
  shared,     \* TRUE: both call analyze on one engine; FALSE: on one each
  trees,      \* trees[r]: source.ast() of the source of analysis r
  marks,      \* marks[r][i]: node i of trees[r] has node.context
  records,    \* the Context records made by either analysis
  stacks,     \* stacks[e]: this.stack of engine e
  sources,    \* sources[e]: this.source of engine e, 0 before any analyze
  collectors, \* collectors[r]: the records handed to add of source r
  cursors,    \* cursors[r]: the next callback of analysis r
  pcs,        \* pcs[r]: "idle", "walk", "done", "error" (a scoring call
              \* threw) or "aborted" (a call of its source threw)
  calling,    \* the analysis that called source.ast() or source.add() last
              \* and has not gone on since, 0 when there is none
  nested,     \* the analysis that runs inside a call of the other's source,
              \* 0 when there is none
  overlapped  \* an analyze was called while the other analysis was walking

\* what the walk of one tree on a fresh engine leaves alone
duoVars ==
  <<shared, trees, marks, records, stacks, sources, collectors, cursors, pcs,
    calling, nested, overlapped>>

extra == <<base, sigThis, sigOut, names, keys, values, duoVars>>

vars == <<ast, marked, heap, stack, collected, entered, cursor, pc, extra>>

----------------------------------------------------------------------------
(* Bounds of the model.                                                    *)

\* the largest tree of the traversal specification Spec
MaxNodes == 4

\* the largest tree of the scoring-table specification SpecWide
MaxWide == 3

\* the largest tree of each of the two analyses of SpecDuo
MaxDuo == 3

\* the longest member-access chain of the signature specification SpecSig:
\* the number of its property accesses
MaxChain == 2

----------------------------------------------------------------------------
(* Analyzer(): the constructor's tables.                                   *)

\* mutant: function expressions open no scope
Contexts_noExpression == {"FunctionDeclaration", "Program"}

Contexts == {"FunctionExpression", "FunctionDeclaration", "Program"}

ScoreBranch == 10
ScoreBranchEmpty == 1
ScoreFn == 3
ScoreCall == 1

----------------------------------------------------------------------------
(* Syntax trees.                                                           *)

NodeTypes ==
  { "Program", "FunctionDeclaration", "FunctionExpression", "CallExpression",
    "IfStatement", "SwitchCase", "LogicalExpression", "CatchClause",
    "ConditionalExpression", "DoWhileStatement", "ForStatement",
    "ForInStatement", "WhileStatement", "VariableDeclarator",
    "AssignmentExpression", "MemberExpression", "Identifier", "Literal" }

\* The node types of the trees of Spec: one for each way a node can act on
\* the engine (opens a scope, one add call, two add calls, no add call).
CoreTypes ==
  { "Program", "FunctionDeclaration", "FunctionExpression", "CallExpression",
    "IfStatement", "Identifier" }

Operators == {"||", "&&", "??"}

\* A node as the scoring rules see it.  `alternate` says whether the node has
\* an alternate branch, `consequent` is the length of its consequent list.
Node(type, alternate, consequent, operator) ==
  [type |-> type, alternate |-> alternate, consequent |-> consequent,
   operator |-> operator]

Labels(types, maxn) ==
  LET plain == types \ {"IfStatement", "SwitchCase", "LogicalExpression"}
  IN       {Node(t, FALSE, 0, "") : t \in plain}
     \cup  {Node(t, a, 0, "") : t \in types \cap {"IfStatement"}, a \in BOOLEAN}
     \cup  {Node(t, FALSE, n, "") : t \in types \cap {"SwitchCase"},
                                    n \in 0..maxn}
     \cup  {Node(t, FALSE, 0, o) : t \in types \cap {"LogicalExpression"},
                                   o \in Operators}

RECURSIVE Ancestors(_, _)
Ancestors(up, i) ==
  IF up[i] = 0 THEN {} ELSE {up[i]} \cup Ancestors(up, up[i])

\* The parent vectors of the ordered trees of n nodes numbered in pre-order.
Shapes(n) ==
  { up \in [1..n -> 0..n] :
      \A i \in 1..n :
        IF i = 1 THEN up[i] = 0
        ELSE /\ up[i] \in 1..(i - 1)
             /\ up[i] \in {i - 1} \cup Ancestors(up, i - 1) }

Children(t, i) == {j \in 1..Len(t) : t[j].up = i}

\* What the fields say has to be there to walk: an alternate branch is a
\* child of the if-statement and the consequent statements are children of
\* the case; a program node is the root of its tree and of nothing else.
WellFormed(t) ==
  \A i \in 1..Len(t) :
    /\ t[i].alternate => Children(t, i) # {}
    /\ t[i].type = "SwitchCase" =>
         t[i].consequent \in {Cardinality(Children(t, i)),
                              Cardinality(Children(t, i)) - 1}
    /\ t[i].type = "Program" => i = 1

Tree(up, lab) ==
  [i \in DOMAIN up |->
     [type |-> lab[i].type, up |-> up[i], alternate |-> lab[i].alternate,
      consequent |-> lab[i].consequent, operator |-> lab[i].operator]]

----------------------------------------------------------------------------
(* The walk: every node is entered once, before its children in order, and *)
(* left once, after them.  enter receives the node and its parent node.    *)

FirstChild(t, i) == IF i < Len(t) /\ t[i + 1].up = i THEN i + 1 ELSE 0

NextSibling(t, i) ==
  LET later == {j \in (i + 1)..Len(t) : t[j].up = t[i].up}
  IN  IF t[i].up = 0 \/ later = {} THEN 0
      ELSE CHOOSE j \in later : \A k \in later : j <= k

AfterEnter(t, i) ==
  IF FirstChild(t, i) # 0 THEN [phase |-> "enter", node |-> FirstChild(t, i)]
  ELSE [phase |-> "leave", node |-> i]

\* node 0: the walk is over
AfterLeave(t, i) ==
  IF NextSibling(t, i) # 0 THEN [phase |-> "enter", node |-> NextSibling(t, i)]
  ELSE [phase |-> "leave", node |-> t[i].up]

----------------------------------------------------------------------------
(* Context: the scope record.                                              *)

Context(node, parentNode, depth) ==
  [node |-> node, parent |-> parentNode, children |-> <<>>,
   _score |-> 0, _depth |-> depth]

\* mutant: the amount is stored, not added
Context_add_assign(this, num) == [this EXCEPT !._score = num]

Context_add(this, num) == [this EXCEPT !._score = @ + num]

depth(this) == this._depth

\* mutant: the children's local scores instead of their score()
score_shallow(h, c) ==
  LET kids == h[c].children
      RECURSIVE reduce(_, _)
      reduce(i, a) ==
        IF i > Len(kids) THEN a ELSE reduce(i + 1, a + h[kids[i]]._score)
  IN  reduce(1, h[c]._score)

\* this.children.map(child.score()).reduce(a + b, this._score)
RECURSIVE score(_, _)
score(h, c) ==
  LET kids == h[c].children
      RECURSIVE reduce(_, _)
      reduce(i, a) ==
        IF i > Len(kids) THEN a ELSE reduce(i + 1, a + score(h, kids[i]))
  IN  reduce(1, h[c]._score)

----------------------------------------------------------------------------
(* Analyzer: the scoring rules.  Each rule yields the amounts it passes to *)
(* this.add, in call order.                                                *)

addBranch == <<ScoreBranch>>

addCase(node) ==
  IF node.consequent # 0 THEN <<ScoreBranch>> ELSE <<ScoreBranchEmpty>>

\* mutant: the alternate branch is not looked at
addIf_single(node) == <<ScoreBranch>>

addIf(node) ==
  (IF node.alternate THEN <<ScoreBranch>> ELSE <<>>) \o <<ScoreBranch>>

\* mutant: every logical operator counts as a branch
addLogical_anyOperator(node) == <<ScoreBranch>>

addLogical(node) == IF node.operator = "||" THEN <<ScoreBranch>> ELSE <<>>

addCall == <<ScoreCall>>

addFn(node) == <<ScoreFn>>

process(node) ==
  CASE node.type \in {"FunctionExpression", "FunctionDeclaration"} -> addFn(node)
    [] node.type = "CallExpression" -> addCall
    [] node.type = "IfStatement" -> addIf(node)
    [] node.type = "SwitchCase" -> addCase(node)
    [] node.type = "LogicalExpression" -> addLogical(node)
    [] node.type \in {"CatchClause", "ConditionalExpression",
                      "DoWhileStatement", "ForStatement", "ForInStatement",
                      "WhileStatement"} -> addBranch
    [] OTHER -> <<>>

----------------------------------------------------------------------------
(* Analyzer: the scope stack.                                              *)

\* mutant: the bottom of the stack instead of its top
context_bottom(s) == IF s = <<>> THEN 0 ELSE s[1]

\* this.stack[this.stack.length - 1]; 0 stands for undefined
context(s) == IF s = <<>> THEN 0 ELSE s[Len(s)]

\* this.context().add(num), on a non-empty stack
add(h, s, num) == [h EXCEPT ![context(s)] = Context_add(@, num)]

\* mutant: only the first add call of a rule is made
addEach_headOnly(h, s, nums) ==
  IF nums = <<>> THEN h ELSE add(h, s, Head(nums))

\* the add calls of one rule, in order
RECURSIVE addEach(_, _, _)
addEach(h, s, nums) ==
  IF nums = <<>> THEN h ELSE addEach(add(h, s, Head(nums)), s, Tail(nums))

\* mutant: an add call without a record to add to is skipped
Throws_never(s, node) == FALSE

\* this.context() is undefined on an empty stack: the first add call throws
Throws(s, node) == process(node) # <<>> /\ context(s) = 0

\* mutant: the depth is read after the push
pushContext_depthAfterPush(h, s, col, node, parentNode) ==
  LET parent == context(s)
      new    == Len(h) + 1
      h1     == Append(h, Context(node, parentNode, Len(s) + 1))
      h2     == IF parent # 0
                  THEN [h1 EXCEPT ![parent].children = Append(@, new)]
                  ELSE h1
  IN  [heap |-> h2, stack |-> Append(s, new), collected |-> Append(col, new)]

\* mutant: the collector is told only of records that have a parent
pushContext_addIfParent(h, s, col, node, parentNode) ==
  LET parent == context(s)
      new    == Len(h) + 1
      h1     == Append(h, Context(node, parentNode, Len(s)))
      h2     == IF parent # 0
                  THEN [h1 EXCEPT ![parent].children = Append(@, new)]
                  ELSE h1
  IN  [heap |-> h2, stack |-> Append(s, new),
       collected |-> IF parent # 0 THEN Append(col, new) ELSE col]

\* mutant: the child goes to the front of the parent's list
pushContext_unshift(h, s, col, node, parentNode) ==
  LET parent == context(s)
      new    == Len(h) + 1
      h1     == Append(h, Context(node, parentNode, Len(s)))
      h2     == IF parent # 0
                  THEN [h1 EXCEPT ![parent].children = <<new>> \o @]
                  ELSE h1
  IN  [heap |-> h2, stack |-> Append(s, new), collected |-> Append(col, new)]

\* The heap, the stack and the collector after pushContext(node, parentNode).
pushContext(h, s, col, node, parentNode) ==
  LET parent == context(s)
      new    == Len(h) + 1
      h1     == Append(h, Context(node, parentNode, Len(s)))
      h2     == IF parent # 0
                  THEN [h1 EXCEPT ![parent].children = Append(@, new)]
                  ELSE h1
  IN  [heap |-> h2, stack |-> Append(s, new), collected |-> Append(col, new)]

\* mutant: nothing is popped
popContext_keep(s) == s

\* Array.prototype.pop leaves an empty array empty
popContext(s) == IF s = <<>> THEN s ELSE SubSeq(s, 1, Len(s) - 1)

----------------------------------------------------------------------------
(* The engine as a state machine.                                          *)

InitTree(rootTypes, types, maxn) ==
  \E n \in 0..maxn :
    \E up \in Shapes(n) :
      \E lab \in [1..n -> Labels(types, maxn)] :
        /\ ast = Tree(up, lab)
        /\ WellFormed(ast)
        /\ n > 0 => ast[1].type \in rootTypes

\* no second analysis and no second engine
NoDuo ==
  /\ shared = FALSE
  /\ trees = <<>>
  /\ marks = <<>>
  /\ records = <<>>
  /\ stacks = <<>>
  /\ sources = <<>>
  /\ collectors = <<>>
  /\ cursors = <<>>
  /\ pcs = <<>>
  /\ calling = 0
  /\ nested = 0
  /\ overlapped = FALSE

\* new Analyzer(), and a tree no engine has walked yet
InitEngine ==
  /\ marked = [i \in 1..Len(ast) |-> FALSE]
  /\ heap = <<>>
  /\ stack = <<>>
  /\ collected = <<>>
  /\ entered = <<>>
  /\ cursor = [phase |-> "enter", node |-> 0]
  /\ pc = "idle"
  /\ base = 0
  /\ sigThis = <<>>
  /\ sigOut = [t |-> "pending", s |-> "", n |-> 0]   \* no signature asked
  /\ NoDuo

\* trees whose identifiers carry no name the walk could read
NoNames ==
  /\ names = [i \in 1..Len(ast) |-> ""]
  /\ keys = [i \in 1..Len(ast) |-> ""]
  /\ values = [i \in 1..Len(ast) |-> [t |-> "undefined", s |-> "", n |-> 0]]

Init == InitTree({"Program"}, CoreTypes, MaxNodes) /\ InitEngine /\ NoNames

InitWide == InitTree({"Program"}, NodeTypes, MaxWide) /\ InitEngine /\ NoNames

\* trees of at most MaxWide nodes whose root is of any type
InitAnyRoot == InitTree(CoreTypes, CoreTypes, MaxWide) /\ InitEngine /\ NoNames

\* mutant: no test for a missing tree, the walk fails on it
analyze_noGuard ==
  /\ pc = "idle"
  /\ stack' = <<>>
  /\ IF ast = <<>>
       THEN pc' = "error" /\ UNCHANGED cursor
       ELSE pc' = "walk" /\ cursor' = [phase |-> "enter", node |-> 1]
  /\ UNCHANGED <<ast, marked, heap, collected, entered>>
  /\ UNCHANGED extra

\* analyze(source): reset the stack and start the walk of source.ast();
\* traverse returns at once when there is no tree.
analyze ==
  /\ pc = "idle"
  /\ stack' = <<>>
  /\ IF ast = <<>>
       THEN pc' = "done" /\ UNCHANGED cursor
       ELSE pc' = "walk" /\ cursor' = [phase |-> "enter", node |-> 1]
  /\ UNCHANGED <<ast, marked, heap, collected, entered>>
  /\ UNCHANGED extra

\* mutant: the scope is pushed before the node is scored
enter_pushFirst(n) ==
  /\ pc = "walk"
  /\ cursor = [phase |-> "enter", node |-> n]
  /\ entered' = Append(entered, n)
  /\ LET r  == IF ast[n].type \in Contexts
                THEN pushContext(heap, stack, collected, n, ast[n].up)
                ELSE [heap |-> heap, stack |-> stack, collected |-> collected]
     IN  IF process(ast[n]) # <<>> /\ context(r.stack) = 0
           THEN /\ pc' = "error"
                /\ UNCHANGED <<marked, heap, stack, collected, cursor>>
           ELSE /\ marked' = [marked EXCEPT ![n] = ast[n].type \in Contexts]
                /\ heap' = addEach(r.heap, r.stack, process(ast[n]))
                /\ stack' = r.stack
                /\ collected' = r.collected
                /\ cursor' = AfterEnter(ast, n)
                /\ pc' = "walk"
  /\ UNCHANGED ast
  /\ UNCHANGED extra

\* The enter callback on node n.
enter(n) ==
  /\ pc = "walk"
  /\ cursor = [phase |-> "enter", node |-> n]
  /\ entered' = Append(entered, n)
  /\ IF Throws(stack, ast[n])
       THEN /\ pc' = "error"
            /\ UNCHANGED <<marked, heap, stack, collected, cursor>>
       ELSE LET h1 == addEach(heap, stack, process(ast[n]))
            IN  /\ IF ast[n].type \in Contexts
                     THEN LET r == pushContext(h1, stack, collected, n, ast[n].up)
                          IN  /\ marked' = [marked EXCEPT ![n] = TRUE]
                              /\ heap' = r.heap
                              /\ stack' = r.stack
                              /\ collected' = r.collected
                     ELSE /\ heap' = h1
                          /\ UNCHANGED <<marked, stack, collected>>
                /\ cursor' = AfterEnter(ast, n)
                /\ pc' = "walk"
  /\ UNCHANGED ast
  /\ UNCHANGED extra

\* mutant: leave pops whatever node is left
leave_popAlways(n) ==
  /\ pc = "walk"
  /\ cursor = [phase |-> "leave", node |-> n]
  /\ stack' = popContext(stack)
  /\ cursor' = AfterLeave(ast, n)
  /\ pc' = IF cursor'.node = 0 THEN "done" ELSE "walk"
  /\ UNCHANGED <<ast, marked, heap, collected, entered>>
  /\ UNCHANGED extra

\* The leave callback on node n.
leave(n) ==
  /\ pc = "walk"
  /\ cursor = [phase |-> "leave", node |-> n]
  /\ stack' = IF marked[n] THEN popContext(stack) ELSE stack
  /\ cursor' = AfterLeave(ast, n)
  /\ pc' = IF cursor'.node = 0 THEN "done" ELSE "walk"
  /\ UNCHANGED <<ast, marked, heap, collected, entered>>
  /\ UNCHANGED extra

Next ==
  \/ analyze
  \/ \E n \in 1..Len(ast) : enter(n)
  \/ \E n \in 1..Len(ast) : leave(n)

\* the traversal, on every tree of at most MaxNodes nodes of CoreTypes
Spec == Init /\ [][Next]_vars

\* analyze is one synchronous call: once called, the walk takes its next
\* step as long as it has one
SpecLive == Spec /\ WF_vars(Next)

\* the traversal of trees that need not start with a program node
SpecAnyRoot == InitAnyRoot /\ [][Next]_vars

\* the scoring table, on every tree of at most MaxWide nodes of any type
SpecWide == InitWide /\ [][Next]_vars

----------------------------------------------------------------------------
(* An engine that is used again.                                           *)

\* The enter callback on a scope-defining node n when the collector's add
\* throws: the record is made, linked and pushed, and the exception ends the
\* run there.
addThrows(n) ==
  /\ pc = "walk"
  /\ cursor = [phase |-> "enter", node |-> n]
  /\ ~Throws(stack, ast[n])
  /\ ast[n].type \in Contexts
  /\ entered' = Append(entered, n)
  /\ LET h1 == addEach(heap, stack, process(ast[n]))
         r  == pushContext(h1, stack, collected, n, ast[n].up)
     IN  /\ marked' = [marked EXCEPT ![n] = TRUE]
         /\ heap' = r.heap
         /\ stack' = r.stack
  /\ pc' = "error"
  /\ UNCHANGED <<ast, collected, cursor, base, sigThis, sigOut, names, keys,
                 values, duoVars>>

\* mutant: the stack of the earlier run is kept
reanalyze_noReset ==
  /\ pc \in {"done", "error"}
  /\ base = 0
  /\ base' = Len(heap)
  /\ entered' = <<>>
  /\ stack' = stack
  /\ IF ast = <<>>
       THEN pc' = "done" /\ UNCHANGED cursor
       ELSE pc' = "walk" /\ cursor' = [phase |-> "enter", node |-> 1]
  /\ UNCHANGED <<ast, marked, heap, collected, sigThis, sigOut, names, keys,
                 values, duoVars>>

\* analyze(source) on an engine that has run before, with the same source:
\* the nodes keep their marks, the records of the earlier run stay where
\* they are.  One more run after a first one that made records.
reanalyze ==
  /\ pc \in {"done", "error"}
  /\ base = 0
  /\ base' = Len(heap)
  /\ entered' = <<>>
  /\ stack' = <<>>
  /\ IF ast = <<>>
       THEN pc' = "done" /\ UNCHANGED cursor
       ELSE pc' = "walk" /\ cursor' = [phase |-> "enter", node |-> 1]
  /\ UNCHANGED <<ast, marked, heap, collected, sigThis, sigOut, names, keys,
                 values, duoVars>>

NextReuse ==
  \/ Next
  \/ \E n \in 1..Len(ast) : addThrows(n)
  \/ reanalyze

\* runs on a fresh engine, to their end or to a failure of the collector,
\* each followed by a run of the same engine on the same tree
SpecReuse == Init /\ [][NextReuse]_vars

----------------------------------------------------------------------------
(* Context.prototype.signature.                                            *)
(*                                                                         *)
(* JavaScript values are records [t, s, n]: undefined, a string s, a       *)
(* number n.  A TypeError stands for the exception a call ends with.  A    *)
(* property that holds a node is a sequence: <<>> when the node is not     *)
(* there, <<node>> when it is.                                             *)

Undefined == [t |-> "undefined", s |-> "", n |-> 0]
Str(x) == [t |-> "string", s |-> x, n |-> 0]
Num(k) == [t |-> "number", s |-> "", n |-> k]
Bool(b) == [t |-> "boolean", s |-> "", n |-> IF b THEN 1 ELSE 0]
Null == [t |-> "null", s |-> "", n |-> 0]
\* an object: a node of the given type held as a value
Object(type) == [t |-> "object", s |-> type, n |-> 0]
TypeError == [t |-> "TypeError", s |-> "", n |-> 0]
Pending == [t |-> "pending", s |-> "", n |-> 0]

\* ToBoolean
Truthy(v) ==
  \/ v.t = "string" /\ v.s # ""
  \/ v.t = "number" /\ v.n # 0
  \/ v.t = "boolean" /\ v.n = 1
  \/ v.t = "object"

\* ToString of a natural number: its decimal digits
RECURSIVE Digits(_)
Digits(k) ==
  LET digit == <<"0", "1", "2", "3", "4", "5", "6", "7", "8", "9">>
  IN  IF k < 10 THEN digit[k + 1]
      ELSE Digits(k \div 10) \o digit[(k % 10) + 1]

\* what Array.prototype.join writes for an element
\* (nothing for undefined and null, ToString for the rest)
Text(v) ==
  CASE v.t = "string" -> v.s
    [] v.t = "number" -> Digits(v.n)
    [] v.t = "boolean" -> IF v.n = 1 THEN "true" ELSE "false"
    [] v.t = "object" -> "[object Object]"
    [] OTHER -> ""

\* ret.join('.')
RECURSIVE join(_)
join(ret) ==
  IF ret = <<>> THEN ""
  ELSE IF Len(ret) = 1 THEN Text(ret[1])
  ELSE Text(ret[1]) \o "." \o join(Tail(ret))

\* A node as signature() sees it.
Obj(type) ==
  [type |-> type, name |-> Undefined, value |-> Undefined, id |-> <<>>,
   object |-> <<>>, property |-> <<>>, left |-> <<>>]

Identifier(x) == [Obj("Identifier") EXCEPT !.name = Str(x)]

Literal(v) == [Obj("Literal") EXCEPT !.value = v]

Member(object, property) ==
  [Obj("MemberExpression") EXCEPT !.object = <<object>>, !.property = <<property>>]

\* the properties of a member access: a.b, a[0], a[1], a[10], a[''], a['k'],
\* a[true], a[false], a[null], a[f()]
Properties ==
  { Identifier("b"), Literal(Num(0)), Literal(Num(1)), Literal(Num(10)),
    Literal(Str("")), Literal(Str("k")), Literal(Bool(TRUE)),
    Literal(Bool(FALSE)), Literal(Null), Obj("CallExpression") }

\* what a chain starts from: a, this
Bases == { Identifier("a"), Obj("ThisExpression") }

\* the member-access chains of exactly k property accesses
RECURSIVE Chains(_)
Chains(k) ==
  IF k = 0 THEN Bases
  ELSE {Member(o, q) : o \in Chains(k - 1), q \in Properties}

\* the left-hand sides of an assignment: x, [x] and the chains
Lefts ==
  {Identifier("x"), Obj("ArrayPattern")}
    \cup UNION {Chains(k) : k \in 1..MaxChain}

\* the nodes a scope record is made for
ScopeObjects ==
  {Obj("Program")}
    \cup { [Obj(t) EXCEPT !.id = i] :
             t \in {"FunctionDeclaration", "FunctionExpression"},
             i \in {<<>>, <<Identifier("foo")>>, <<Obj("Identifier")>>} }

\* the parent nodes handed to enter: none, the program, a call, a declarator
\* of x or of a pattern, an assignment
ParentObjects ==
  {<<>>, <<Obj("Program")>>, <<Obj("CallExpression")>>}
    \cup { <<[Obj("VariableDeclarator") EXCEPT !.id = <<i>>]>> :
             i \in {Identifier("x"), Obj("ObjectPattern")} }
    \cup { <<[Obj("AssignmentExpression") EXCEPT !.left = <<l>>]>> : l \in Lefts }

\* a || b, for values
Or(a, b) == IF Truthy(a) THEN a ELSE b

main(this) == IF this.node.type = "Program" THEN Str("*") ELSE Undefined

named(this) ==
  IF this.node.id = <<>> \/ ~Truthy(this.node.id[1].name) THEN Undefined
  ELSE this.node.id[1].name

\* this.parent.type and this.parent.id.name throw when the node is not there
vardec(this) ==
  IF this.parent = <<>> THEN TypeError
  ELSE IF this.parent[1].type # "VariableDeclarator" THEN Undefined
  ELSE IF this.parent[1].id = <<>> THEN TypeError
  ELSE this.parent[1].id[1].name

\* the inner function of assignment: [throws, ret], ret the array after it
RECURSIVE search(_)
search(obj) ==
  IF obj.object = <<>> THEN [throws |-> TRUE, ret |-> <<>>]
  ELSE LET inner == IF obj.object[1].type = "MemberExpression"
                      THEN search(obj.object[1])
                      ELSE [throws |-> FALSE, ret |-> <<obj.object[1].name>>]
       IN  IF inner.throws THEN inner
           ELSE IF obj.property = <<>> THEN [throws |-> TRUE, ret |-> <<>>]
           ELSE [throws |-> FALSE,
                 ret |-> Append(inner.ret,
                                Or(obj.property[1].name,
                                   Or(obj.property[1].value, Str("?"))))]

assignment(this) ==
  IF this.parent = <<>> THEN TypeError
  ELSE IF this.parent[1].type # "AssignmentExpression" THEN Undefined
  ELSE IF this.parent[1].left = <<>> THEN TypeError
  ELSE LET left == this.parent[1].left[1]
       IN  IF Truthy(left.name) THEN left.name
           ELSE IF search(left).throws THEN TypeError
           ELSE Str(join(search(left).ret))

\* mutant: the variable's name is tried before the function's own
signature_vardecFirst(this) ==
  IF Truthy(main(this)) THEN main(this)
  ELSE IF vardec(this) = TypeError THEN TypeError
  ELSE IF Truthy(vardec(this)) THEN vardec(this)
  ELSE IF Truthy(named(this)) THEN named(this)
  ELSE IF assignment(this) = TypeError THEN TypeError
  ELSE IF Truthy(assignment(this)) THEN assignment(this)
  ELSE Str("anonymous")

\* main() || named() || vardec() || assignment() || 'anonymous'
signature(this) ==
  IF Truthy(main(this)) THEN main(this)
  ELSE IF Truthy(named(this)) THEN named(this)
  ELSE IF vardec(this) = TypeError THEN TypeError
  ELSE IF Truthy(vardec(this)) THEN vardec(this)
  ELSE IF assignment(this) = TypeError THEN TypeError
  ELSE IF Truthy(assignment(this)) THEN assignment(this)
  ELSE Str("anonymous")

\* no tree is walked
NoWalk ==
  /\ ast = <<>>
  /\ marked = <<>>
  /\ heap = <<>>
  /\ stack = <<>>
  /\ collected = <<>>
  /\ entered = <<>>
  /\ cursor = [phase |-> "enter", node |-> 0]
  /\ pc = "idle"
  /\ base = 0
  /\ names = <<>>
  /\ keys = <<>>
  /\ values = <<>>

\* new Context(node, parentNode, depth), for every node and parent node
InitSig ==
  /\ NoWalk
  /\ \E node \in ScopeObjects, parentNode \in ParentObjects :
       sigThis = <<[node |-> node, parent |-> parentNode]>>
  /\ sigOut = Pending
  /\ NoDuo

\* a call of signature()
sign ==
  /\ sigOut = Pending
  /\ sigThis # <<>>
  /\ sigOut' = signature(sigThis[1])
  /\ UNCHANGED <<ast, marked, heap, stack, collected, entered, cursor, pc,
                 base, sigThis, names, keys, values, duoVars>>

NextSig == sign

\* signature(), on every scope node and every parent node
SpecSig == InitSig /\ [][NextSig]_vars

----------------------------------------------------------------------------
(* The program  function foo() { if (a) { bar(); } else { baz(); } }  and  *)
(* the programs it becomes when the else branch or a call is left out or   *)
(* the function is given another name.                                     *)

Named(type, up, alternate, key, name) ==
  [type |-> type, up |-> up, alternate |-> alternate, key |-> key,
   name |-> name, value |-> Undefined]

\* the statement  callee();  in the block at index `at`
CallStatement(at, callee) ==
  << Named("ExpressionStatement", at, FALSE, "body", ""),
     Named("CallExpression", at + 1, FALSE, "expression", ""),
     Named("Identifier", at + 2, FALSE, "callee", callee) >>

FooSource(fname, hasElse, thenCall, elseCall) ==
  LET head == << Named("Program", 0, FALSE, "", ""),
                 Named("FunctionDeclaration", 1, FALSE, "body", ""),
                 Named("Identifier", 2, FALSE, "id", fname),
                 Named("BlockStatement", 2, FALSE, "body", ""),
                 Named("IfStatement", 4, hasElse, "body", ""),
                 Named("Identifier", 5, FALSE, "test", "a"),
                 Named("BlockStatement", 5, FALSE, "consequent", "") >>
      then == IF thenCall THEN CallStatement(7, "bar") ELSE <<>>
      at   == Len(head) + Len(then) + 1
      else == IF hasElse
                THEN <<Named("BlockStatement", 5, FALSE, "alternate", "")>>
                       \o (IF elseCall THEN CallStatement(at, "baz") ELSE <<>>)
                ELSE <<>>
  IN  head \o then \o else

\* the tree of a source, and the names, keys and literal values in it
TreeOf(src) ==
  [i \in DOMAIN src |->
     [type |-> src[i].type, up |-> src[i].up, alternate |-> src[i].alternate,
      consequent |-> 0, operator |-> ""]]

NamesOf(src) == [i \in DOMAIN src |-> src[i].name]

KeysOf(src) == [i \in DOMAIN src |-> src[i].key]

ValuesOf(src) == [i \in DOMAIN src |-> src[i].value]

\* function foo() { if (a) { bar(); } else { baz(); } }
Foo == FooSource("foo", TRUE, TRUE, TRUE)

\* node[key]: the child of node i its property `key` holds, 0 when the
\* property holds no node
Held(i, key) ==
  LET held == {j \in 1..Len(ast) : ast[j].up = i /\ keys[j] = key}
  IN  IF held = {} THEN 0 ELSE CHOOSE j \in held : \A k \in held : j <= k

\* node i of the tree as signature() reads it: its type, name and value and
\* the nodes its id, object, property and left hold; the value of a node
\* whose value is a node (a property of an object literal or pattern) is
\* that object
RECURSIVE ObjectOf(_)
ObjectOf(i) ==
  LET At(key) == IF Held(i, key) = 0 THEN <<>> ELSE <<ObjectOf(Held(i, key))>>
  IN  [type     |-> ast[i].type,
       name     |-> IF names[i] # "" THEN Str(names[i]) ELSE Undefined,
       value    |-> IF Held(i, "value") # 0
                      THEN Object(ast[Held(i, "value")].type)
                      ELSE values[i],
       id       |-> At("id"),
       object   |-> At("object"),
       property |-> At("property"),
       left     |-> At("left")]

\* record r of the heap as signature() reads it
ThisOf(r) ==
  [node |-> ObjectOf(heap[r].node),
   parent |-> IF heap[r].parent = 0 THEN <<>> ELSE <<ObjectOf(heap[r].parent)>>]

InitFoo ==
  /\ \E fname \in {"foo", "f"}, hasElse, thenCall, elseCall \in BOOLEAN :
       /\ elseCall => hasElse
       /\ ast = TreeOf(FooSource(fname, hasElse, thenCall, elseCall))
       /\ names = NamesOf(FooSource(fname, hasElse, thenCall, elseCall))
       /\ keys = KeysOf(FooSource(fname, hasElse, thenCall, elseCall))
       /\ values = ValuesOf(FooSource(fname, hasElse, thenCall, elseCall))
  /\ InitEngine

\* the traversal of foo and of the programs next to it
SpecFoo == InitFoo /\ [][Next]_vars

----------------------------------------------------------------------------
(* Two analyses.  analyze is synchronous: the second analysis starts when  *)
(* the first is over, or inside a call the first makes to its source,      *)
(* source.ast() or source.add(context), and then it runs to its end or to  *)
(* its failure before the first goes on.                                   *)

\* the node types of the trees of SpecDuo: a scope, a scope with a penalty,
\* a penalty
DuoTypes == {"Program", "FunctionExpression", "CallExpression"}

DuoTrees ==
  UNION { { Tree(up, lab) : up \in Shapes(n),
                            lab \in [1..n -> Labels(DuoTypes, MaxDuo)] }
          : n \in 1..MaxDuo }

\* mutant: the stack and the source are kept in one place for all engines
EngineOf_single(r) == 1

\* the engine analysis r calls: this.stack and this.source are set on the
\* instance
EngineOf(r) == IF shared THEN 1 ELSE r

Other(r) == 3 - r

\* analysis r is the one whose callbacks run now
Running(r) == pcs[r] = "walk" /\ nested \in {0, r}

\* pcs after analysis r ended with `how`; an exception of a nested analysis
\* is caught by the source that called it or ends the calling analysis too
Ended(r, how, caught) ==
  [pcs EXCEPT ![r] = how,
              ![Other(r)] = IF nested = r /\ how # "done" /\ ~caught
                              THEN "aborted" ELSE @]

\* whether the source catches matters for a nested analysis only
Catches(r) == IF nested = r THEN BOOLEAN ELSE {TRUE}

InitDuo ==
  /\ NoWalk
  /\ sigThis = <<>>
  /\ sigOut = Pending
  /\ shared \in BOOLEAN
  /\ \E t1 \in DuoTrees, t2 \in DuoTrees :
       /\ WellFormed(t1) /\ t1[1].type = "Program"
       /\ WellFormed(t2) /\ t2[1].type = "Program"
       /\ trees = <<t1, t2>>
  /\ marks = [r \in 1..2 |-> [i \in 1..Len(trees[r]) |-> FALSE]]
  /\ records = <<>>
  /\ stacks = [e \in 1..2 |-> <<>>]
  /\ sources = [e \in 1..2 |-> 0]
  /\ collectors = [r \in 1..2 |-> <<>>]
  /\ cursors = [r \in 1..2 |-> [phase |-> "enter", node |-> 0]]
  /\ pcs = [r \in 1..2 |-> "idle"]
  /\ calling = 0
  /\ nested = 0
  /\ overlapped = FALSE

\* analyze(source) of analysis r on its engine, called when the other
\* analysis is not walking or from inside the call it made to its source;
\* source.ast() is called after the stack and the source are set.  The
\* analysis called first is numbered 1.
analyzeOn(r) ==
  /\ pcs[r] = "idle"
  /\ r = 2 => pcs[1] # "idle"
  /\ pcs[Other(r)] = "walk" => calling = Other(r)
  /\ stacks' = [stacks EXCEPT ![EngineOf(r)] = <<>>]
  /\ sources' = [sources EXCEPT ![EngineOf(r)] = r]
  /\ pcs' = [pcs EXCEPT ![r] = "walk"]
  /\ cursors' = [cursors EXCEPT ![r] = [phase |-> "enter", node |-> 1]]
  /\ calling' = r
  /\ nested' = IF pcs[Other(r)] = "walk" THEN r ELSE 0
  /\ overlapped' = (overlapped \/ pcs[Other(r)] = "walk")
  /\ UNCHANGED <<shared, trees, marks, records, collectors>>
  /\ UNCHANGED <<ast, marked, heap, stack, collected, entered, cursor, pc,
                 base, sigThis, sigOut, names, keys, values>>

\* the enter callback of analysis r on node n of its tree
enterOn(r, n) ==
  /\ Running(r)
  /\ cursors[r] = [phase |-> "enter", node |-> n]
  /\ LET e    == EngineOf(r)
         node == trees[r][n]
     IN  IF Throws(stacks[e], node)
           THEN /\ \E caught \in Catches(r) : pcs' = Ended(r, "error", caught)
                /\ calling' = 0
                /\ nested' = 0
                /\ UNCHANGED <<marks, records, stacks, collectors, cursors>>
           ELSE LET h1 == addEach(records, stacks[e], process(node))
                IN  /\ IF node.type \in Contexts
                         THEN LET p == pushContext(h1, stacks[e],
                                                   collectors[sources[e]],
                                                   <<r, n>>, <<r, node.up>>)
                              IN  /\ marks' = [marks EXCEPT ![r][n] = TRUE]
                                  /\ records' = p.heap
                                  /\ stacks' = [stacks EXCEPT ![e] = p.stack]
                                  /\ collectors' =
                                       [collectors EXCEPT
                                          ![sources[e]] = p.collected]
                                  /\ calling' = r
                         ELSE /\ records' = h1
                              /\ calling' = 0
                              /\ UNCHANGED <<marks, stacks, collectors>>
                    /\ cursors' = [cursors EXCEPT ![r] = AfterEnter(trees[r], n)]
                    /\ UNCHANGED <<pcs, nested>>
  /\ UNCHANGED <<shared, trees, sources, overlapped>>
  /\ UNCHANGED <<ast, marked, heap, stack, collected, entered, cursor, pc,
                 base, sigThis, sigOut, names, keys, values>>

\* the enter callback of analysis r on scope node n when the add of the
\* engine's source throws: the record is made, linked and pushed, and the
\* analysis ends there
addThrowsOn(r, n) ==
  /\ Running(r)
  /\ cursors[r] = [phase |-> "enter", node |-> n]
  /\ ~Throws(stacks[EngineOf(r)], trees[r][n])
  /\ trees[r][n].type \in Contexts
  /\ LET e  == EngineOf(r)
         h1 == addEach(records, stacks[e], process(trees[r][n]))
         p  == pushContext(h1, stacks[e], collectors[sources[e]],
                           <<r, n>>, <<r, trees[r][n].up>>)
     IN  /\ marks' = [marks EXCEPT ![r][n] = TRUE]
         /\ records' = p.heap
         /\ stacks' = [stacks EXCEPT ![e] = p.stack]
  /\ \E caught \in Catches(r) : pcs' = Ended(r, "aborted", caught)
  /\ calling' = 0
  /\ nested' = 0
  /\ UNCHANGED <<shared, trees, sources, collectors, cursors, overlapped>>
  /\ UNCHANGED <<ast, marked, heap, stack, collected, entered, cursor, pc,
                 base, sigThis, sigOut, names, keys, values>>

\* the leave callback of analysis r on node n of its tree
leaveOn(r, n) ==
  /\ Running(r)
  /\ cursors[r] = [phase |-> "leave", node |-> n]
  /\ stacks' = [stacks EXCEPT
                  ![EngineOf(r)] = IF marks[r][n] THEN popContext(@) ELSE @]
  /\ cursors' = [cursors EXCEPT ![r] = AfterLeave(trees[r], n)]
  /\ pcs' = IF cursors'[r].node = 0 THEN Ended(r, "done", TRUE) ELSE pcs
  /\ calling' = 0
  /\ nested' = IF cursors'[r].node = 0 THEN 0 ELSE nested
  /\ UNCHANGED <<shared, trees, marks, records, sources, collectors,
                 overlapped>>
  /\ UNCHANGED <<ast, marked, heap, stack, collected, entered, cursor, pc,
                 base, sigThis, sigOut, names, keys, values>>

NextDuo ==
  \E r \in 1..2 :
    \/ analyzeOn(r)
    \/ \E n \in 1..Len(trees[r]) : enterOn(r, n)
    \/ \E n \in 1..Len(trees[r]) : addThrowsOn(r, n)
    \/ \E n \in 1..Len(trees[r]) : leaveOn(r, n)

\* two analyses of trees of at most MaxDuo nodes, on one engine or on two,
\* one after the other or one inside a call of the other's source
SpecDuo == InitDuo /\ [][NextDuo]_vars

----------------------------------------------------------------------------
(* What the specification says, stated apart from the engine above.        *)

Range(q) == {q[k] : k \in 1..Len(q)}

\* a node is scope-defining iff it is a function declaration, a function
\* expression or the program root
IsScope(t, i) ==
  t[i].type \in {"FunctionDeclaration", "FunctionExpression", "Program"}

\* the innermost scope-defining proper ancestor of node i; 0 when it has none
RECURSIVE EnclosingScope(_, _)
EnclosingScope(t, i) ==
  IF t[i].up = 0 THEN 0
  ELSE IF IsScope(t, t[i].up) THEN t[i].up
  ELSE EnclosingScope(t, t[i].up)

\* the scope-defining nodes among node i and its ancestors, root first
RECURSIVE PathScopes(_, _)
PathScopes(t, i) ==
  IF i = 0 THEN <<>>
  ELSE PathScopes(t, t[i].up) \o (IF IsScope(t, i) THEN <<i>> ELSE <<>>)

\* the table of penalties of section 4.1
Penalty(node) ==
  CASE node.type \in {"FunctionDeclaration", "FunctionExpression"} -> 3
    [] node.type = "CallExpression" -> 1
    [] node.type = "IfStatement" -> IF node.alternate THEN 20 ELSE 10
    [] node.type = "SwitchCase" -> IF node.consequent > 0 THEN 10 ELSE 1
    [] node.type = "LogicalExpression" -> IF node.operator = "||" THEN 10 ELSE 0
    [] node.type \in {"CatchClause", "ConditionalExpression",
                      "DoWhileStatement", "ForStatement", "ForInStatement",
                      "WhileStatement"} -> 10
    [] OTHER -> 0

RECURSIVE Sum(_, _)
Sum(f, S) ==
  IF S = {} THEN 0
  ELSE LET x == CHOOSE y \in S : TRUE IN f[x] + Sum(f, S \ {x})

Records == 1..Len(heap)

LocalScore == [r \in Records |-> heap[r]._score]

\* a step that runs the enter callback to its end
EnterStep ==
  /\ pc = "walk"
  /\ cursor.phase = "enter"
  /\ entered' # entered
  /\ pc' # "error"

\* a step that runs the leave callback
LeaveStep ==
  /\ pc = "walk"
  /\ cursor.phase = "leave"
  /\ cursor' # cursor

----------------------------------------------------------------------------
(* C1 *)

\* every record's local score is the total penalty of the nodes entered so
\* far whose innermost enclosing scope it records
C1_Attribution ==
  /\ \A r \in Records :
       heap[r]._score =
         Sum([i \in 1..Len(ast) |-> Penalty(ast[i])],
             {i \in Range(entered) : EnclosingScope(ast, i) = heap[r].node})
  /\ \A i \in Range(entered) :
       Penalty(ast[i]) > 0 =>
         \E r \in Records : heap[r].node = EnclosingScope(ast, i)

\* entering a scored node adds its penalty to the record on top of the stack
\* at that moment, which records the node's innermost enclosing scope, and to
\* no other record; a record the node opens starts without it
C1_Step ==
  EnterStep /\ Penalty(ast[cursor.node]) > 0 =>
    /\ stack # <<>>
    /\ LET top == stack[Len(stack)]
       IN  /\ heap[top].node = EnclosingScope(ast, cursor.node)
           /\ heap'[top]._score = heap[top]._score + Penalty(ast[cursor.node])
           /\ \A r \in 1..Len(heap') :
                r # top =>
                  heap'[r]._score = IF r <= Len(heap) THEN heap[r]._score ELSE 0

\* C1: on a tree rooted at a program node, the penalty of each scored node
\* goes to the local score of the record that is on top of the stack when the
\* node is entered, the record of the node's innermost enclosing scope; a
\* function's weight goes to the enclosing scope's record, not to its own.
C1_PenaltyToEnclosingScope == []C1_Attribution /\ [][C1_Step]_vars

\* a function nested in a function has been walked: the outer function's
\* record holds the inner one's weight, the inner one's record what is in it
C1_Witness ==
  /\ pc = "done"
  /\ \E a, b \in Records :
       /\ a # 1 /\ b # a
       /\ ast[heap[b].node].up = heap[a].node
       /\ heap[a]._score = 3
       /\ heap[b]._score = 10

----------------------------------------------------------------------------
(* C2 *)

\* the records reached from r through children lists, r itself included
RECURSIVE Nested(_)
Nested(r) == {r} \cup UNION {Nested(c) : c \in Range(heap[r].children)}

\* C2: at any point during or after a traversal, the score() of a record is
\* its local score plus the score() of its direct children, to any depth:
\* the local score of the record and of each record nested in it, each
\* counted exactly once.
C2_ScoreIsSumOfNested ==
  \A r \in Records : score(heap, r) = Sum(LocalScore, Nested(r))

\* in the middle of a walk, a record has a scored record two levels below it
C2_Witness ==
  /\ pc = "walk"
  /\ \E r, c, g \in Records :
       /\ c \in Range(heap[r].children)
       /\ g \in Range(heap[c].children)
       /\ heap[g]._score > 0
       /\ heap[c]._score > 0
       /\ score(heap, r) = heap[r]._score + heap[c]._score + heap[g]._score

----------------------------------------------------------------------------
(* C3 *)

\* the node the walk is in: the parent of the node it enters next, or the
\* node it leaves next
Visiting == IF cursor.phase = "enter" THEN ast[cursor.node].up ELSE cursor.node

C3_StackIsPath ==
  pc = "walk" =>
    /\ [k \in 1..Len(stack) |-> heap[stack[k]].node] = PathScopes(ast, Visiting)
    /\ \A k \in 1..Len(stack) : heap[stack[k]]._depth = k - 1
    /\ \A k \in 1..(Len(stack) - 1) :
         LET kids == heap[stack[k]].children
         IN  kids # <<>> /\ kids[Len(kids)] = stack[k + 1]

\* leaving a scope-defining node pops the record made for that node, and
\* leaving any other node pops nothing
C3_Pop ==
  LeaveStep =>
    IF IsScope(ast, cursor.node)
      THEN /\ stack # <<>>
           /\ heap[stack[Len(stack)]].node = cursor.node
           /\ stack' = SubSeq(stack, 1, Len(stack) - 1)
      ELSE stack' = stack

\* C3: at every point of a traversal the stack holds exactly the records of
\* the scope-defining nodes on the path from the root to the node being
\* visited, root first: the record at index i has depth i, each record is
\* the latest child of the one below it, and leaving a scope-defining node
\* pops the record created when that node was entered.
C3_StackMirrorsPath == []C3_StackIsPath /\ [][C3_Pop]_vars

\* the walk is inside the second of two sibling scopes, the first one popped
C3_Witness ==
  /\ pc = "walk"
  /\ Len(stack) = 2
  /\ Len(heap[stack[1]].children) = 2
  /\ Len(heap) = 3

----------------------------------------------------------------------------
(* C4 *)

RECURSIVE NodeAncestors(_, _)
NodeAncestors(t, i) ==
  IF t[i].up = 0 THEN {} ELSE {t[i].up} \cup NodeAncestors(t, t[i].up)

ScopeAncestors(t, i) == {a \in NodeAncestors(t, i) : IsScope(t, a)}

C4_Depth ==
  /\ \A r \in Records :
       /\ depth(heap[r]) = Cardinality(ScopeAncestors(ast, heap[r].node))
       /\ depth(heap[r]) = 0 <=> heap[r].node = 1
       /\ EnclosingScope(ast, heap[r].node) = 1 => depth(heap[r]) = 1
       /\ \A c \in Range(heap[r].children) :
            depth(heap[c]) = depth(heap[r]) + 1
  /\ Cardinality({r \in Records : depth(heap[r]) = 0}) <= 1
  /\ Range(entered) # {} => \E r \in Records : depth(heap[r]) = 0

C4_DepthIsFixed == \A r \in Records : depth(heap'[r]) = depth(heap[r])

\* C4: a record's depth() is the number of scope-defining proper ancestors of
\* its node: 0 for the program root's record and for no other, 1 for every
\* scope directly nested in the root, the parent record's depth plus 1 for
\* each nested scope; it never changes after creation.
C4_DepthCountsEnclosingScopes == []C4_Depth /\ [][C4_DepthIsFixed]_vars

\* a scope of depth 1 that is not a child node of the root, and one of depth 2
C4_Witness ==
  /\ pc = "done"
  /\ \E r, q \in Records :
       /\ depth(heap[r]) = 1
       /\ ast[heap[r].node].up # 1
       /\ depth(heap[q]) = 2

----------------------------------------------------------------------------
(* C5 *)

RecordNodes == {heap[r].node : r \in Records}

C5_OnePerScope ==
  /\ \A r, q \in Records : heap[r].node = heap[q].node => r = q
  /\ RecordNodes = {i \in Range(entered) : IsScope(ast, i)}
  /\ pc = "done" => RecordNodes = {i \in 1..Len(ast) : IsScope(ast, i)}

C5_CreatedEmpty ==
  /\ Len(heap') >= Len(heap)
  /\ \A r \in (Len(heap) + 1)..Len(heap') :
       heap'[r]._score = 0 /\ heap'[r].children = <<>>

\* C5: a traversal creates exactly one record for each function declaration,
\* function expression and program root, and none for any other node; a
\* record is created with local score 0 and no children, whatever the
\* function's body.
C5_OneRecordPerScopeNode == []C5_OnePerScope /\ [][C5_CreatedEmpty]_vars

\* a function without anything in it has its record, beside a node that is
\* no scope
C5_Witness ==
  /\ pc = "done"
  /\ \E r \in Records :
       /\ heap[r].node # 1
       /\ Children(ast, heap[r].node) = {}
       /\ heap[r]._score = 0
  /\ \E i \in 1..Len(ast) : ~IsScope(ast, i)

----------------------------------------------------------------------------
(* C6 *)

IsScopeNode(i) == IsScope(ast, i)

\* C6: during one analyze run the collector's add is called exactly once for
\* each created record and for nothing else, in the pre-order in which the
\* scope-defining nodes are entered: a parent scope's record comes before
\* every record nested in it.
C6_CollectedInPreOrder ==
  /\ collected = [k \in 1..Len(heap) |-> k]
  /\ [k \in 1..Len(collected) |-> heap[collected[k]].node]
       = SelectSeq(entered, IsScopeNode)
  /\ \A j, k \in 1..Len(collected) :
       heap[collected[j]].node \in NodeAncestors(ast, heap[collected[k]].node)
         => j < k

\* three records delivered, one of them nested in a function
C6_Witness ==
  /\ pc = "done"
  /\ Len(collected) = 3
  /\ \E k \in 1..Len(collected) : heap[collected[k]]._depth = 2

----------------------------------------------------------------------------
(* C7 *)

\* the members of a set of numbers, ascending
RECURSIVE Ascending(_)
Ascending(S) ==
  IF S = {} THEN <<>>
  ELSE LET lo == CHOOSE x \in S : \A y \in S : x <= y
       IN  <<lo>> \o Ascending(S \ {lo})

\* the places where record c stands in a children list
PlacesOf(c) ==
  {<<p, k>> \in Records \X (1..Len(heap)) :
     k <= Len(heap[p].children) /\ heap[p].children[k] = c}

C7_Children ==
  /\ \A r \in Records :
       [k \in 1..Len(heap[r].children) |-> heap[heap[r].children[k]].node]
         = Ascending({i \in Range(entered) :
                        IsScope(ast, i) /\ EnclosingScope(ast, i) = heap[r].node})
  /\ \A c \in Records :
       Cardinality(PlacesOf(c)) = IF heap[c].node = 1 THEN 0 ELSE 1

\* a record becomes the last child of the record on top of the stack at its
\* creation, and no other children list changes
C7_ChildOfTop ==
  EnterStep /\ Len(heap') > Len(heap) =>
    \A r \in Records :
      heap'[r].children =
        IF stack # <<>> /\ r = stack[Len(stack)]
          THEN Append(heap[r].children, Len(heap'))
          ELSE heap[r].children

\* C7: after a traversal every record but the root is in the children list
\* of exactly one record, the one on top of the stack when it was created,
\* and is there once; a children list holds exactly the records of the
\* scopes nested directly in its scope, in order of entry (source order).
C7_ChildrenAreDirectlyNested == []C7_Children /\ [][C7_ChildOfTop]_vars

\* the root has two child scopes, the first of which has a child of its own
C7_Witness ==
  /\ pc = "done"
  /\ Len(heap) = 4
  /\ Len(heap[1].children) = 2
  /\ Len(heap[heap[1].children[1]].children) = 1

----------------------------------------------------------------------------
(* C8 *)

\* what a step adds to the local score of record r
Gain(r) == heap'[r]._score - heap[r]._score

\* the local scores of the records other than r are as before, and a record
\* the step creates has local score 0
OnlyGains(r) ==
  \A q \in 1..Len(heap') :
    q # r => heap'[q]._score = IF q <= Len(heap) THEN heap[q]._score ELSE 0

C8_IfStep ==
  EnterStep /\ ast[cursor.node].type = "IfStatement" =>
    /\ stack # <<>>
    /\ heap'[stack[Len(stack)]]._score >= heap[stack[Len(stack)]]._score
    /\ Gain(stack[Len(stack)]) = IF ast[cursor.node].alternate THEN 20 ELSE 10
    /\ OnlyGains(stack[Len(stack)])

\* C8: entering an if-statement without an alternate branch adds exactly one
\* branch weight (10) to the enclosing scope's local score, entering one with
\* an alternate branch adds exactly two (20); an else-if chain adds two for
\* the outer if and then what the nested if adds.
C8_IfAddsOneOrTwoBranches == [][C8_IfStep]_vars

\* an else-if chain has been walked: if / else if, without a final else
C8_Witness ==
  /\ pc = "done"
  /\ \E i, j \in 1..Len(ast) :
       /\ ast[i].type = "IfStatement" /\ ast[i].alternate
       /\ ast[j].type = "IfStatement" /\ ~ast[j].alternate
       /\ ast[j].up = i
       /\ \A k \in Children(ast, i) : k <= j
       /\ \E r \in Records :
            heap[r].node = EnclosingScope(ast, i) /\ heap[r]._score = 30

----------------------------------------------------------------------------
(* C9 *)

C9_TableStep ==
  EnterStep /\ ast[cursor.node].type # "IfStatement" =>
    IF stack = <<>>
      THEN /\ Penalty(ast[cursor.node]) = 0
           /\ OnlyGains(0)
      ELSE /\ heap'[stack[Len(stack)]]._score >= heap[stack[Len(stack)]]._score
           /\ Gain(stack[Len(stack)]) = Penalty(ast[cursor.node])
           /\ OnlyGains(stack[Len(stack)])

\* C9: for every node type but the if-statement, entering the node adds to the
\* active scope exactly the table value: +3 for a function declaration or
\* expression, +1 for a call, +10 for a switch case with consequent statements
\* and +1 for one without, +10 for a logical expression with '||' and 0 with
\* any other operator, +10 for a catch clause, a conditional expression, a
\* do-while, a for, a for-in and a while, 0 for every other type, the program
\* root included.
C9_PenaltyTable == [][C9_TableStep]_vars

\* an empty case, a case with a statement in it and an '&&' have been entered
C9_Witness ==
  /\ pc = "done"
  /\ \E i, j \in 1..Len(ast) :
       /\ ast[i].type = "SwitchCase" /\ ast[i].consequent = 1
       /\ ast[j].type = "LogicalExpression" /\ ast[j].operator = "&&"
       /\ ast[j].up = i
  /\ heap[1]._score = 10

----------------------------------------------------------------------------
(* C10 *)

\* C10: analyze on an absent tree completes without error, creates no scope
\* record, never calls the collector's add and leaves the stack empty.
C10_AbsentTreeIsNoOp ==
  ast = <<>> =>
    /\ pc \in {"idle", "done"}
    /\ heap = <<>>
    /\ collected = <<>>
    /\ stack = <<>>
    /\ entered = <<>>

\* analyze has returned from a call without a tree
C10_Witness == ast = <<>> /\ pc = "done"

----------------------------------------------------------------------------
(* C11 *)

ScopeList(t) == Ascending({i \in 1..Len(t) : IsScope(t, i)})

\* the place of scope-defining node i among the scope-defining nodes
ScopeIndex(t, i) ==
  Cardinality({j \in 1..i : IsScope(t, j)})

\* the records of the tree, numbered in order of entry: what section 4 says
\* a run leaves behind
Fresh(t) ==
  [j \in 1..Len(ScopeList(t)) |->
     LET n    == ScopeList(t)[j]
         kids == Ascending({i \in 1..Len(t) :
                              IsScope(t, i) /\ EnclosingScope(t, i) = n})
     IN  [node     |-> n,
          parent   |-> t[n].up,
          children |-> [k \in 1..Len(kids) |-> ScopeIndex(t, kids[k])],
          _score   |-> Sum([i \in 1..Len(t) |-> Penalty(t[i])],
                           {i \in 1..Len(t) : EnclosingScope(t, i) = n}),
          _depth   |-> Cardinality(ScopeAncestors(t, n))]]

\* record base + j of the heap, its children numbered from the run's first
RunRecord(j) ==
  [heap[base + j] EXCEPT
     !.children = [k \in 1..Len(@) |-> @[k] - base]]

\* C11: analyze empties the stack before walking, so a run's result does not
\* depend on the engine's earlier use: on an engine that has completed a run
\* on the same tree (whose nodes still bear the scope mark) or was left with
\* a non-empty stack, a run yields the records, depths, links, local scores
\* and collector calls that it yields on a fresh engine.
C11_RunIsIndependentOfEarlierUse ==
  pc = "done" =>
    /\ stack = <<>>
    /\ Len(heap) = base + Len(Fresh(ast))
    /\ \A j \in 1..Len(Fresh(ast)) :
         /\ \A k \in 1..Len(heap[base + j].children) :
              heap[base + j].children[k] > base
         /\ RunRecord(j) = Fresh(ast)[j]
    /\ Len(collected) >= Len(Fresh(ast))
    /\ \A j \in 1..Len(Fresh(ast)) :
         collected[Len(collected) - Len(Fresh(ast)) + j] = base + j

\* a second run has ended on an engine whose first run was cut short inside
\* a nested scope, with two records on the stack
C11_Witness ==
  /\ pc = "done"
  /\ base = 2
  /\ Len(collected) = 1 + Len(Fresh(ast))
  /\ Len(Fresh(ast)) >= 3

\* a second run has ended after a complete first run on the same tree
C11_WitnessMarked ==
  /\ pc = "done"
  /\ base = Len(Fresh(ast))
  /\ base >= 3
  /\ \A i \in 1..Len(ast) : marked[i] <=> IsScope(ast, i)

----------------------------------------------------------------------------
(* C12 *)

IsPrefix(p, q) == Len(p) <= Len(q) /\ SubSeq(q, 1, Len(p)) = p

C12_Step ==
  /\ Len(heap') >= Len(heap)
  /\ LeaveStep => heap' = heap
  /\ \A r \in Records :
       /\ heap'[r].node = heap[r].node
       /\ heap'[r].parent = heap[r].parent
       /\ heap'[r]._depth = heap[r]._depth
       /\ heap'[r]._score >= heap[r]._score
       /\ IsPrefix(heap[r].children, heap'[r].children)
       /\ Len(heap'[r].children) <= Len(heap[r].children) + 1
       /\ (stack = <<>> \/ r # stack[Len(stack)]) => heap'[r] = heap[r]

\* C12: an enter or leave step changes at most the record on top of the
\* stack at that step, and only by raising its local score or appending one
\* child; every other record keeps its local score and children, no local
\* score decreases, no child is removed or moved, and a record that has been
\* popped is not modified again.
C12_OnlyTopGrows == [][C12_Step]_vars

\* the walk is in a later scope while a scored record, popped before, still
\* holds what it held
C12_Witness ==
  /\ pc = "walk"
  /\ stack # <<>>
  /\ \E r \in Records :
       /\ r \notin Range(stack)
       /\ r < stack[Len(stack)]
       /\ heap[r]._score > 0
       /\ heap[stack[Len(stack)]]._score > 0

----------------------------------------------------------------------------
(* The names of scopes.                                                    *)

\* the record signature() was asked of
Asked == sigThis[1]

Answered == sigThis # <<>> /\ sigOut # Pending

\* the node is there and carries a non-empty name
HasName(o) == o # <<>> /\ o[1].name.t = "string" /\ o[1].name.s # ""

IsType(o, type) == o # <<>> /\ o[1].type = type

\* a function without a name of its own
Anonymous(c) == c.node.type # "Program" /\ ~HasName(c.node.id)

\* the left-hand side of the assignment the function is the right-hand side of
LeftOf(c) == c.parent[1].left

\* a member-access chain whose base is an identifier
RECURSIVE IdentifierChain(_)
IdentifierChain(e) ==
  /\ e.type = "MemberExpression"
  /\ \/ HasName(e.object) /\ e.object[1].type = "Identifier"
     \/ IsType(e.object, "MemberExpression") /\ IdentifierChain(e.object[1])

\* every property of the chain has a name
RECURSIVE NamedChain(_)
NamedChain(e) ==
  \/ e.type = "Identifier"
  \/ /\ e.type = "MemberExpression"
     /\ HasName(e.property)
     /\ NamedChain(e.object[1])

\* a natural number written in decimal
RECURSIVE Decimal(_)
Decimal(k) ==
  LET last == CASE k % 10 = 0 -> "0" [] k % 10 = 1 -> "1" [] k % 10 = 2 -> "2"
                [] k % 10 = 3 -> "3" [] k % 10 = 4 -> "4" [] k % 10 = 5 -> "5"
                [] k % 10 = 6 -> "6" [] k % 10 = 7 -> "7" [] k % 10 = 8 -> "8"
                [] OTHER -> "9"
  IN  IF k < 10 THEN last ELSE Decimal(k \div 10) \o last

\* the text of a literal value
LiteralText(v) ==
  IF v.t = "string" THEN v.s
  ELSE IF v.t = "number" THEN Decimal(v.n)
  ELSE IF v.t = "boolean" THEN (IF v.n = 1 THEN "true" ELSE "false")
  ELSE "null"

\* a segment: the property's name, else its literal value, else '?'
Segment(q) ==
  IF q.name.t = "string" THEN q.name.s
  ELSE IF q.value.t # "undefined" THEN LiteralText(q.value)
  ELSE "?"

\* the chain unwound left to right and joined with '.'
RECURSIVE ChainName(_)
ChainName(e) ==
  IF e.type = "Identifier" THEN e.name.s
  ELSE ChainName(e.object[1]) \o "." \o Segment(e.property[1])

\* the scope positions the five rules are stated for: the program, or a
\* function with a parent node whose declarator or assignment target, when
\* the rule gets that far, is an identifier or a chain of named properties
Regular(c) ==
  \/ c.node.type = "Program"
  \/ /\ c.parent # <<>>
     /\ \/ HasName(c.node.id)
        \/ IsType(c.parent, "VariableDeclarator") /\ HasName(c.parent[1].id)
        \/ /\ IsType(c.parent, "AssignmentExpression")
           /\ \/ IsType(LeftOf(c), "Identifier") /\ HasName(LeftOf(c))
              \/ /\ IsType(LeftOf(c), "MemberExpression")
                 /\ IdentifierChain(LeftOf(c)[1])
                 /\ NamedChain(LeftOf(c)[1])
        \/ c.parent[1].type \notin {"VariableDeclarator", "AssignmentExpression"}

\* the five rules, in their order
Resolved(c) ==
  IF c.node.type = "Program" THEN "*"
  ELSE IF HasName(c.node.id) THEN c.node.id[1].name.s
  ELSE IF IsType(c.parent, "VariableDeclarator") THEN c.parent[1].id[1].name.s
  ELSE IF IsType(c.parent, "AssignmentExpression") THEN ChainName(LeftOf(c)[1])
  ELSE "anonymous"

\* C13: signature() resolves in strict priority order, first match wins: '*'
\* for the program, else the function's own name, else the name of the
\* variable the parent declarator initialises, else the name derived from the
\* left-hand side of the parent assignment, else 'anonymous'.
C13_SignaturePriority ==
  (Answered /\ Regular(Asked)) => sigOut = Str(Resolved(Asked))

\* a named function expression that initialises a variable or is assigned
\* has been reported under its own name
C13_Witness ==
  /\ Answered
  /\ sigOut = Str("foo")
  /\ \/ IsType(Asked.parent, "VariableDeclarator") /\ HasName(Asked.parent[1].id)
     \/ IsType(Asked.parent, "AssignmentExpression")

\* the positions the assignment rule is stated for: an anonymous function
\* assigned to an identifier or to a chain that starts from an identifier
AssignedAnonymous(c) ==
  /\ Anonymous(c)
  /\ IsType(c.parent, "AssignmentExpression")
  /\ \/ IsType(LeftOf(c), "Identifier") /\ HasName(LeftOf(c))
     \/ IsType(LeftOf(c), "MemberExpression") /\ IdentifierChain(LeftOf(c)[1])

\* C14: an anonymous function assigned to an identifier is named after it;
\* assigned to a member-access chain it is named by the chain unwound left to
\* right and joined with '.', each segment the property's name, else its
\* literal value whatever that value is (0 and '' too), else '?'.
C14_AssignmentTargetName ==
  (Answered /\ AssignedAnonymous(Asked)) =>
    sigOut = Str(ChainName(LeftOf(Asked)[1]))

\* the malformed and unexpected positions: a function without a name whose
\* parent is absent, or declares a pattern, or assigns to something that is
\* neither an identifier nor a chain that starts from an identifier
Malformed(c) ==
  /\ Anonymous(c)
  /\ \/ c.parent = <<>>
     \/ IsType(c.parent, "VariableDeclarator") /\ ~HasName(c.parent[1].id)
     \/ /\ IsType(c.parent, "AssignmentExpression")
        /\ ~(IsType(LeftOf(c), "Identifier") /\ HasName(LeftOf(c)))
        /\ ~(IsType(LeftOf(c), "MemberExpression") /\ IdentifierChain(LeftOf(c)[1]))

\* C17: signature() never raises; at a malformed or unexpected position
\* every rule falls through and the answer is 'anonymous'.
C17_SignatureNeverRaises ==
  Answered =>
    /\ sigOut # TypeError
    /\ Malformed(Asked) => sigOut = Str("anonymous")

----------------------------------------------------------------------------
(* The worked example.                                                     *)

\* analyze has returned from function foo() { if (a) { bar(); } else { baz(); } }
FooAnalysed ==
  /\ pc = "done"
  /\ ast = TreeOf(Foo)
  /\ names = NamesOf(Foo)
  /\ keys = KeysOf(Foo)

\* what the example says of the records, whatever is meant by a score
FooRecords ==
  /\ Len(heap) = 2
  /\ collected = <<1, 2>>
  /\ ast[heap[1].node].type = "Program"
  /\ ast[heap[2].node].type = "FunctionDeclaration"
  /\ heap[1].children = <<2>>
  /\ signature(ThisOf(2)) = Str("foo")

\* C15 as stated: analysing foo gives exactly two records, the root record
\* with score 3 and the foo record with score 22 and signature "foo".
C15_FooScoresAsStated ==
  FooAnalysed =>
    /\ FooRecords
    /\ score(heap, 1) = 3
    /\ score(heap, 2) = 22

\* C15 amended: analysing foo gives exactly two records, the root record
\* with local score 3 and score() 25, as score() includes foo's, and the foo
\* record with score 22 and signature "foo".
C15_FooLocalScores ==
  FooAnalysed =>
    /\ FooRecords
    /\ heap[1]._score = 3
    /\ score(heap, 1) = 25
    /\ heap[2]._score = 22
    /\ score(heap, 2) = 22

C15_Witness == FooAnalysed /\ Len(heap) = 2 /\ signature(ThisOf(1)) = Str("*")

----------------------------------------------------------------------------
(* Conservation of score.                                                  *)

PenaltyOf == [n \in 1..Len(ast) |-> Penalty(ast[n])]

\* C18: at every point of the traversal of a tree rooted at a program node
\* the local scores of the records created so far add up to the penalties of
\* the nodes entered so far; after it the root record's score() is the total
\* penalty of the tree.
C18_ScoreIsConserved ==
  /\ Sum(LocalScore, Records) = Sum(PenaltyOf, Range(entered))
  /\ (pc = "done" /\ ast # <<>>) =>
       score(heap, 1) = Sum(PenaltyOf, 1..Len(ast))

\* a walk has ended whose penalties lie in more than one record, one of them
\* the two of an if-statement with an alternate
C18_Witness ==
  /\ pc = "done"
  /\ \E r \in Records : r # 1 /\ heap[r]._score >= 20
  /\ heap[1]._score > 0
  /\ score(heap, 1) > heap[1]._score

----------------------------------------------------------------------------
(* Scoring calls and the stack.                                            *)

ProgramRoot == ast # <<>> /\ ast[1].type = "Program"

\* the places in `entered` of the nodes whose rule issues a scoring call
Scored == {k \in 1..Len(entered) : Penalty(ast[entered[k]]) > 0}

\* C19: when the root is a program node the stack is non-empty whenever a
\* scoring call is issued: the root record is pushed before any other node is
\* entered and stays at the bottom until the root is left.  When the root is
\* any other node the first scoring call finds the stack empty and the run
\* fails, and no record is ever produced.
C19_ScoringNeedsProgramRoot ==
  /\ ProgramRoot =>
       /\ pc # "error"
       /\ (pc = "walk" /\ entered # <<>>) =>
            (stack # <<>> /\ heap[stack[1]].node = 1)
       /\ (pc = "walk" /\ cursor.phase = "enter" /\ cursor.node > 1) =>
            stack # <<>>
  /\ (ast # <<>> /\ ~ProgramRoot) =>
       /\ heap = <<>> /\ stack = <<>> /\ collected = <<>>
       /\ pc = "error" <=> Scored # {}
       /\ Scored \subseteq {Len(entered)}

\* a run on a tree whose root is not scope-defining has failed at the first
\* scored node, a function below the root
C19_Witness ==
  /\ pc = "error"
  /\ ~IsScope(ast, 1)
  /\ Len(entered) >= 2
  /\ IsScope(ast, entered[Len(entered)])

----------------------------------------------------------------------------
(* Termination, and pushes against pops.                                   *)

\* the scope node that is about to be left
LeavingScope ==
  pc = "walk" /\ cursor.phase = "leave" /\ IsScope(ast, cursor.node)

\* one record is created and pushed
PushStep ==
  /\ Len(heap') = Len(heap) + 1
  /\ stack' = Append(stack, Len(heap'))

\* the record of the scope node being left is popped off a non-empty stack
PopStep ==
  /\ LeavingScope
  /\ stack # <<>>
  /\ heap[stack[Len(stack)]].node = cursor.node
  /\ stack' = SubSeq(stack, 1, Len(stack) - 1)
  /\ Len(heap') = Len(heap)

\* neither: the stack and the number of records stay
KeepStep ==
  /\ ~LeavingScope
  /\ stack' = stack
  /\ Len(heap') = Len(heap)

\* C20: every analyze run on a finite well-formed tree terminates, and every
\* push is matched by exactly one pop: a step pushes one new record, or pops
\* the record of the scope being left off a non-empty stack, or leaves the
\* stack alone, so that the pops are as many as the records when the stack is
\* empty, and it is empty when analyze returns.
C20_TerminatesWithBalancedStack ==
  /\ [][PushStep \/ PopStep \/ KeepStep]_vars
  /\ [](pc = "done" => stack = <<>>)
  /\ <>(pc = "done")

\* analyze has returned from a tree with nested scopes
C20_Witness ==
  /\ pc = "done"
  /\ stack = <<>>
  /\ Len(heap) >= 3
  /\ \E r \in Records : heap[r]._depth = 2

----------------------------------------------------------------------------
(* Two analyses at a time.                                                 *)

\* the records made for nodes of the tree of analysis r, in order of making
Own(r) == Ascending({i \in 1..Len(records) : records[i].node[1] = r})

\* the place of x in q, 0 when it is not there
PlaceIn(q, x) ==
  IF \E k \in 1..Len(q) : q[k] = x
    THEN CHOOSE k \in 1..Len(q) : q[k] = x
    ELSE 0

\* the records of analysis r as a run of its own would number them; a child
\* that belongs to the other tree is numbered 0
RunTree(r) ==
  [j \in 1..Len(Own(r)) |->
     LET c == records[Own(r)[j]]
     IN  [node     |-> c.node[2],
          parent   |-> c.parent[2],
          children |-> [k \in 1..Len(c.children) |->
                          PlaceIn(Own(r), c.children[k])],
          _score   |-> c._score,
          _depth   |-> c._depth]]

\* the analyses use an engine each, or one started after the other ended
Separate == ~shared \/ ~overlapped

\* record i is what a run of its own tree makes of its node so far: the
\* depth is the number of scopes around the node, the children are scopes of
\* the same tree directly inside it, the local score holds no more than the
\* penalties of the nodes directly inside it
OfItsTree(i) ==
  LET r == records[i].node[1]
      n == records[i].node[2]
      t == trees[r]
  IN  /\ records[i]._depth = Cardinality(ScopeAncestors(t, n))
      /\ \A k \in 1..Len(records[i].children) :
           LET c == records[records[i].children[k]].node
           IN  c[1] = r /\ IsScope(t, c[2]) /\ EnclosingScope(t, c[2]) = n
      /\ records[i]._score <=
           Sum([m \in 1..Len(t) |-> Penalty(t[m])],
               {m \in 1..Len(t) : EnclosingScope(t, m) = n})

\* C16: when the two analyses use an engine each, or one engine one after
\* the other, however the one is called from inside the other no scoring
\* call of either fails, every record is a record of its own tree alone and
\* goes to its own collector, and an analysis that returns leaves exactly the
\* records, links, depths and local scores of a run of its own.  (That
\* analyses overlapping on one engine can end otherwise is what C16_Witness
\* is reached for.)
C16_SeparateAnalysesAreIndependent ==
  Separate =>
    /\ \A i \in 1..Len(records) : OfItsTree(i)
    /\ \A r \in 1..2 :
         /\ pcs[r] # "error"
         /\ \A i \in Range(collectors[r]) : records[i].node[1] = r
         /\ pcs[r] = "done" =>
              /\ RunTree(r) = Fresh(trees[r])
              /\ collectors[r] = Own(r)

\* on one shared engine one analysis ran inside a call of the other's source
\* and a record of one tree has a child of the other tree, a record has a depth that is not the number of
\* scopes around its node, a record holds more than the penalties of its
\* whole tree, and a record went to the collector of the other source
C16_Witness ==
  /\ shared /\ overlapped
  /\ \E i \in 1..Len(records) :
       \E k \in 1..Len(records[i].children) :
         records[records[i].children[k]].node[1] # records[i].node[1]
  /\ \E i \in 1..Len(records) :
       records[i]._depth #
         Cardinality(ScopeAncestors(trees[records[i].node[1]],
                                    records[i].node[2]))
  /\ \E i \in 1..Len(records) :
       records[i]._score >
         Sum([n \in 1..Len(trees[records[i].node[1]]) |->
                Penalty(trees[records[i].node[1]][n])],
             1..Len(trees[records[i].node[1]]))
  /\ \E r \in 1..2 : \E i \in Range(collectors[r]) : records[i].node[1] # r

============================================================================
